---- MODULE Spec2Model ----
(***************************************************************************)
(* Model of the "mime" command line tool (src/App.cpp): main's command     *)
(* dispatch, InstallMimeTypeFromResource, DeleteMimeType and               *)
(* GetInstalledMimeTypes, run against the MIME registry (BMimeType) and    *)
(* the boot volume's attribute indices (fs_create_index/fs_remove_index).  *)
(*                                                                         *)
(* One action is one invocation of the program.  The registry and the      *)
(* indices persist between invocations; `run` records what the last        *)
(* invocation was given and what it did.                                   *)
(***************************************************************************)
EXTENDS Integers, Sequences, FiniteSets, TLC

\* ------------------------------------------------------------------ bounds
\* Longest attribute schema stored in a resource file.
MaxAttrs == 2

\* ---------------------------------------------------------- status values
B_OK == 0
B_ERROR == -1
B_FILE_EXISTS == -2147459070
B_ENTRY_NOT_FOUND == -2147459069
B_READ_ONLY_DEVICE == -2147459064
EXIT_SUCCESS == 0
EXIT_FAILURE == 1

\* A NULL pointer: argv[2] when absent, LoadResource() of a missing resource.
Null == "NULL"

\* ------------------------------------------------------- command strings
\* C strings are modelled as sequences of characters, so that strncmp()
\* compares what it compares.
STR_install == <<"i", "n", "s", "t", "a", "l", "l">>
STR_uninstall == <<"u", "n", "i", "n", "s", "t", "a", "l", "l">>
STR_list == <<"l", "i", "s", "t">>
STR_installer == <<"i", "n", "s", "t", "a", "l", "l", "e", "r">>
STR_delete == <<"d", "e", "l", "e", "t", "e">>

Commands == {STR_install, STR_uninstall, STR_list, STR_installer, STR_delete}

\* strncmp(command, lit, strlen(lit)) == 0
StrNCmpEq(command, lit) ==
    /\ Len(command) >= Len(lit)
    /\ SubSeq(command, 1, Len(lit)) = lit

\* --------------------------------------------------------- MIME registry
ValidType == "application/x-sen-note"
OtherType == "relation/x-sen-link"
InvalidType == "sen note"
ValidTypes == {ValidType, OtherType}

\* BMimeType::IsValid(): the registry's type string grammar.
IsValid(t) == t \in ValidTypes

FieldKinds == {"sdesc", "ldesc", "prefapp", "sniff", "extens", "attrinfo", "icon"}
OptionalKinds == FieldKinds \ {"sdesc"}

\* A metadata field of a record: empty, or holding one value.
Unset == <<>>
Value(v) == <<v>>

\* The record BMimeType::Install() creates: no metadata field set.
EmptyRecord == [installed |-> TRUE, fields |-> [k \in FieldKinds |-> Unset]]
NotInstalled == [installed |-> FALSE, fields |-> [k \in FieldKinds |-> Unset]]

\* ------------------------------------------------------ resource values
TooLong == "a description longer than the registry accepts"
BadRule == "not a sniffer rule"
Garbage == "not a flattened BMessage"
BadExtens == "malformed extension list"
EmptyIcon == "zero length icon"

\* Field values the registry's validation rejects.
RejectedValues == {TooLong, BadRule, BadExtens}

\* An attribute schema entry: internal name, value type, and the
\* attr:searchable flag, which an entry may lack.
AttrNames == <<"SEN:title", "SEN:author", "SEN:date", "SEN:tag">>
AttrTypes == <<"B_STRING_TYPE", "B_INT32_TYPE", "B_INT64_TYPE", "B_STRING_TYPE">>
Flags == {"true", "false", "absent"}

AttributeSpec(i, flag) == [name |-> AttrNames[i], type |-> AttrTypes[i], searchable |-> flag]

Schemas ==
    UNION { { [i \in 1..n |-> AttributeSpec(i, f[i])] : f \in [1..n -> Flags] } : n \in 0..MaxAttrs }

\* The META:ATTR_INFO resource: absent, undecodable, or a flattened message
\* holding a schema; `valid` tells whether the registry accepts it.
NoAttrInfo == [kind |-> "null", schema |-> <<>>, valid |-> TRUE]
GarbageAttrInfo == [kind |-> "garbage", schema |-> <<>>, valid |-> TRUE]
AttrInfoMsgs == { [kind |-> "msg", schema |-> s, valid |-> v] : s \in Schemas, v \in BOOLEAN }
AttrInfos == {NoAttrInfo, GarbageAttrInfo} \cup AttrInfoMsgs

\* ------------------------------------------------------- resource files
\* What BResources/LoadResource() finds at the path given to `install`.
Container(rd, ini, ty, sd, ld, pa, sr, ex, ai, ic) ==
    [readable |-> rd, initOK |-> ini, type |-> ty, sDesc |-> sd, lDesc |-> ld,
     prefApp |-> pa, snifferRule |-> sr, extens |-> ex, attrInfo |-> ai, icon |-> ic]

TypeValues == {Null, InvalidType, ValidType}
SDescValues == {Null, "SEN Note", TooLong}
LDescValues == {Null, "A note kept by SEN", TooLong}
PrefAppValues == {Null, "application/x-vnd.sen-notes"}
SnifferValues == {Null, BadRule}
ExtensValues == {Null, Garbage, "note", BadExtens}
IconValues == {Null, EmptyIcon, "vector icon"}

FlaggedAttrInfo ==
    [kind |-> "msg", schema |-> <<AttributeSpec(1, "false")>>, valid |-> TRUE]

\* A file that cannot be opened, and one whose resources fail InitCheck().
UnreadableFile ==
    Container(FALSE, TRUE, ValidType, "SEN Note", Null, Null, Null, Null, FlaggedAttrInfo, Null)
MalformedFile ==
    Container(TRUE, FALSE, ValidType, "SEN Note", Null, Null, Null, Null, FlaggedAttrInfo, Null)

\* Files varying the required resources, with no or with every optional one.
RequiredFiles ==
    { Container(TRUE, TRUE, ty, sd, Null, Null, Null, Null, NoAttrInfo, Null) :
        ty \in TypeValues, sd \in SDescValues }
    \cup
    { Container(TRUE, TRUE, ty, sd, "A note kept by SEN", "application/x-vnd.sen-notes",
                BadRule, "note", FlaggedAttrInfo, "vector icon") :
        ty \in TypeValues, sd \in SDescValues }

\* Files varying the optional string, extension and icon resources.
OptionalFiles ==
    { Container(TRUE, TRUE, ValidType, "SEN Note", ld, pa, sr, ex, NoAttrInfo, ic) :
        ld \in LDescValues, pa \in PrefAppValues, sr \in SnifferValues,
        ex \in ExtensValues, ic \in IconValues }

\* Files varying the attribute schema, between a rejected long description
\* and an icon.
SchemaFiles ==
    { Container(TRUE, TRUE, ValidType, sd, TooLong, Null, Null, Null, ai, "vector icon") :
        sd \in SDescValues, ai \in AttrInfos }

Files == {UnreadableFile, MalformedFile} \cup RequiredFiles \cup OptionalFiles \cup SchemaFiles

\* --------------------------------------------------------------- BMessage
\* BMessage::Unflatten() of META:ATTR_INFO: one array per field name.  Every
\* entry contributes to attr:name and attr:type; only an entry that carries
\* the flag contributes to attr:searchable.
RECURSIVE FlagsOf(_)
FlagsOf(schema) ==
    IF schema = <<>> THEN <<>>
    ELSE (IF Head(schema).searchable = "absent" THEN <<>>
          ELSE <<Head(schema).searchable = "true">>) \o FlagsOf(Tail(schema))

Unflatten(schema) ==
    [names |-> [i \in 1..Len(schema) |-> schema[i].name],
     types |-> [i \in 1..Len(schema) |-> schema[i].type],
     searchable |-> FlagsOf(schema)]

\* message.GetInfo(ATTR_INDEX, NULL, &indexAttrCount): the number of values
\* stored under attr:searchable, 0 when the name is not in the message.
GetInfoCount(message) == Len(message.searchable)

\* message.GetString("attr:name", i, "")
GetString(message, i) ==
    IF i < Len(message.names) THEN message.names[i + 1] ELSE ""

\* message.GetUInt32("attr:type", i, B_STRING_TYPE)
GetUInt32(message, i) ==
    IF i < Len(message.types) THEN message.types[i + 1] ELSE "B_STRING_TYPE"

\* message.FindBool("attr:searchable", i): called with (name, index), which
\* is the overload bool FindBool(const char*, int32 n = 0) returning the
\* VALUE at index n (false when there is none), not a status.
FindBool(message, i) ==
    IF i < Len(message.searchable) THEN message.searchable[i + 1] ELSE FALSE

\* message.GetBool("attr:searchable", i): called with (name, int), which is
\* the overload bool GetBool(const char*, bool defaultValue); it returns the
\* FIRST value stored under the name, or bool(i) when there is none.
GetBool(message, i) ==
    IF Len(message.searchable) > 0 THEN message.searchable[1] ELSE (i # 0)

\* The bool returned by FindBool() assigned to the status_t `result`.
BoolToStatus(b) == IF b THEN 1 ELSE 0

\* ------------------------------------------------------- volume indices
IndexNames(indices) == { x.name : x \in indices }

\* fs_create_index(device, name, type, 0): 0, or -1 with errno set.
fs_create_index(indices, readOnly, name, type) ==
    IF readOnly THEN [ret |-> -1, errno |-> B_READ_ONLY_DEVICE, indices |-> indices]
    ELSE IF name \in IndexNames(indices)
         THEN [ret |-> -1, errno |-> B_FILE_EXISTS, indices |-> indices]
         ELSE [ret |-> 0, errno |-> B_OK,
               indices |-> indices \cup {[name |-> name, type |-> type]}]

\* fs_remove_index(device, name): 0, or -1 with errno set.
fs_remove_index(indices, readOnly, name) ==
    IF readOnly THEN [ret |-> -1, errno |-> B_READ_ONLY_DEVICE, indices |-> indices]
    ELSE IF name \notin IndexNames(indices)
         THEN [ret |-> -1, errno |-> B_ENTRY_NOT_FOUND, indices |-> indices]
         ELSE [ret |-> 0, errno |-> B_OK,
               indices |-> { x \in indices : x.name # name }]

\* What the loop prints after an index call (lines 188-198).
IndexReport(ret, errno) ==
    IF ret = B_OK THEN "OK"
    ELSE IF errno = B_FILE_EXISTS THEN "EXISTS, skipping."
    ELSE IF errno = B_ENTRY_NOT_FOUND THEN "NOT FOUND, skipping."
    ELSE "ERROR"

\* ---------------------------------------------------- registry operations
\* The local state of one invocation: the registry and the indices as the
\* invocation has left them so far, and a log of what it has done.
NewRun(registry, indices) ==
    [registry |-> registry, indices |-> indices, out |-> {}, err |-> {},
     installCalled |-> FALSE, attempted |-> {}, rejected |-> {},
     iterations |-> 0, indexLog |-> <<>>]

\* printf(...) and fprintf(stderr, ...)
Say(st, text) == [st EXCEPT !.out = @ \cup {text}]
Err(st, text) == [st EXCEPT !.err = @ \cup {text}]

\* Whether the registry's field-specific validation accepts a value.
RegistryAccepts(kind, value) ==
    IF kind = "attrinfo" THEN value.valid ELSE value \notin RejectedValues

StoredValue(kind, value) ==
    IF kind = "attrinfo" THEN Value(value.schema) ELSE Value(value)

\* BMimeType::Set<Field>() on an installed type: writes the field, or
\* rejects the value and leaves the record alone.  Every caller drops the
\* status it returns.
SetField(st, t, kind, value) ==
    IF RegistryAccepts(kind, value)
    THEN [st EXCEPT !.attempted = @ \cup {kind},
                    !.registry[t].fields[kind] = StoredValue(kind, value)]
    ELSE [st EXCEPT !.attempted = @ \cup {kind},
                    !.rejected = @ \cup {kind}]

\* BMimeType::Install(), with the status the registry answers.
Install(st, t, status) ==
    IF status = B_OK
    THEN [st EXCEPT !.installCalled = TRUE, !.registry[t] = EmptyRecord]
    ELSE [st EXCEPT !.installCalled = TRUE]

\* BMimeType::Delete(): removes the record of an installed type.  For a
\* type that is not installed the registry changes nothing and answers
\* `missingStatus`.
Delete(registry, t, missingStatus) ==
    IF registry[t].installed
    THEN [status |-> B_OK, registry |-> [registry EXCEPT ![t] = NotInstalled]]
    ELSE [status |-> missingStatus, registry |-> registry]

\* ------------------------------------------ InstallMimeTypeFromResource
\* Lines 170-200: one pass of the loop over attr:searchable.
IndexIteration(st, message, i, readOnly) ==
    LET attrName == GetString(message, i)
        attrType == GetUInt32(message, i)
        result == BoolToStatus(FindBool(message, i))
        done == [st EXCEPT !.iterations = @ + 1]
    IN  IF result = B_OK
        THEN LET addToIndex == GetBool(message, i)
                 r == IF addToIndex
                      THEN fs_create_index(st.indices, readOnly, attrName, attrType)
                      ELSE fs_remove_index(st.indices, readOnly, attrName)
             IN  [done EXCEPT
                    !.indices = r.indices,
                    !.indexLog = Append(@, [op |-> IF addToIndex THEN "create" ELSE "remove",
                                            name |-> attrName, type |-> attrType, at |-> i,
                                            ret |-> r.ret, errno |-> r.errno,
                                            report |-> IndexReport(r.ret, r.errno)])]
        ELSE done

\* A loop that gives up at the first index call that fails.
RECURSIVE IndexLoopAborting(_, _, _, _, _)
IndexLoopAborting(st, message, i, indexAttrCount, readOnly) ==
    IF i >= indexAttrCount THEN st
    ELSE LET next == IndexIteration(st, message, i, readOnly)
         IN  IF Len(next.indexLog) > 0 /\ next.indexLog[Len(next.indexLog)].ret # B_OK
             THEN next
             ELSE IndexLoopAborting(next, message, i + 1, indexAttrCount, readOnly)

\* for (int i = 0; i < indexAttrCount; i++) { ... }
RECURSIVE IndexLoop(_, _, _, _, _)
IndexLoop(st, message, i, indexAttrCount, readOnly) ==
    IF i >= indexAttrCount THEN st
    ELSE IndexLoop(IndexIteration(st, message, i, readOnly),
                   message, i + 1, indexAttrCount, readOnly)

\* Lines 135-151: the optional string resources.
SetStrings(st, t, c) ==
    LET s1 == IF c.lDesc # Null THEN SetField(st, t, "ldesc", c.lDesc) ELSE st
        s2 == IF c.prefApp # Null THEN SetField(s1, t, "prefapp", c.prefApp) ELSE s1
    IN  IF c.snifferRule # Null THEN SetField(s2, t, "sniff", c.snifferRule) ELSE s2

\* Lines 153-157: the extension list, when it unflattens.
SetExtensions(st, t, c) ==
    IF c.extens # Null /\ c.extens # Garbage
    THEN SetField(st, t, "extens", c.extens)
    ELSE st

\* Lines 159-201: the attribute schema, when it unflattens, and the indices.
SetAttrInfoAndIndices(st, t, c, readOnly) ==
    IF c.attrInfo.kind = "msg"
    THEN LET message == Unflatten(c.attrInfo.schema)
             s1 == SetField(st, t, "attrinfo", c.attrInfo)
         IN  IndexLoop(s1, message, 0, GetInfoCount(message), readOnly)
    ELSE st

\* Size of the icon resource as LoadResource() stores it in *size.
IconSize(icon) == IF icon = EmptyIcon THEN 0 ELSE 4

\* Lines 203-207.
SetIcon(st, t, c) ==
    IF c.icon # Null /\ IconSize(c.icon) > 0
    THEN SetField(st, t, "icon", c.icon)
    ELSE st

\* Lines 128-209: everything after the type is installed.
SetMetadata(st, t, c, readOnly) ==
    IF c.sDesc = Null THEN [st |-> st, result |-> B_ERROR]
    ELSE LET s1 == SetField(st, t, "sdesc", c.sDesc)
             s2 == SetStrings(s1, t, c)
             s3 == SetExtensions(s2, t, c)
             s4 == SetAttrInfoAndIndices(s3, t, c, readOnly)
             s5 == SetIcon(s4, t, c)
         IN  [st |-> s5, result |-> B_OK]

\* Lines 117-126 run even for a type that is already installed.
EnsureInstalledAlways(st, t, c, readOnly, installStatus) ==
    LET s1 == Install(st, t, installStatus)
    IN  IF installStatus # B_OK
        THEN [st |-> Err(s1, "error installing MIME type"), result |-> installStatus]
        ELSE SetMetadata(s1, t, c, readOnly)

\* Lines 117-126, then the rest.
EnsureInstalled(st, t, c, readOnly, installStatus) ==
    IF st.registry[t].installed
    THEN SetMetadata(Say(st, "already installed, updating"), t, c, readOnly)
    ELSE LET s1 == Install(st, t, installStatus)
         IN  IF installStatus # B_OK
             THEN [st |-> Err(s1, "error installing MIME type"), result |-> installStatus]
             ELSE SetMetadata(s1, t, c, readOnly)

\* status_t InstallMimeTypeFromResource(const char* path).  `c` is the file
\* at `path` (path = Null: no file can be opened).
InstallMimeTypeFromResource(path, c, st, readOnly, installStatus) ==
    IF path = Null \/ ~c.readable
    THEN [st |-> Err(st, "cannot read resources"), result |-> B_ERROR]
    ELSE IF ~c.initOK
    THEN [st |-> Err(st, "error initializing resources"), result |-> B_ERROR]
    ELSE IF c.type = Null
    THEN [st |-> st, result |-> B_ERROR]
    ELSE IF ~IsValid(c.type)
         \* `result` still holds InitCheck()'s B_OK here.
    THEN [st |-> Err(st, "invalid MIME type"), result |-> B_OK]
    ELSE EnsureInstalled(st, c.type, c, readOnly, installStatus)

\* ------------------------------------------------------- DeleteMimeType
\* status_t DeleteMimeType(const char* type).  `result` is declared without
\* a value and returned as it is for an invalid type: `garbage` stands for
\* whatever it holds.  The function does not return after the "skipping"
\* notice: it goes on to Delete().
DeleteMimeType(type, st, garbage, missingStatus) ==
    IF ~IsValid(type)
    THEN [st |-> Err(st, "is not a valid MIME type"), result |-> garbage]
    ELSE LET s1 == IF ~st.registry[type].installed
                   THEN Say(st, "is not installed, skipping")
                   ELSE st
             d == Delete(s1.registry, type, missingStatus)
         IN  [st |-> [s1 EXCEPT !.registry = d.registry], result |-> d.status]

\* ------------------------------------------------------------------ main
VARIABLES
    registry,   \* the MIME database: type string -> record
    indices,    \* the attribute indices of the boot volume
    readOnly,   \* whether the boot volume refuses index changes
    file,       \* the resource file at FilePath
    run         \* the last invocation: its arguments and what it did

vars == <<registry, indices, readOnly, file, run>>

FilePath == "note.rsrc"

Statuses == {B_OK, B_ERROR}
\* What an uninitialised status_t may hold.
GarbageStatuses == {B_OK, B_ERROR}
\* What the registry may answer to Delete() of a type it does not hold.
MissingStatuses == {B_OK, B_ENTRY_NOT_FOUND}

OldRecord ==
    [installed |-> TRUE,
     fields |-> [k \in FieldKinds |->
                    IF k = "sdesc" THEN Value("Old note")
                    ELSE IF k = "ldesc" THEN Value("An older description")
                    ELSE Unset]]

AllIndexed == { [name |-> AttrNames[i], type |-> AttrTypes[i]] : i \in 1..MaxAttrs }

\* What is kept of an invocation: what it and main printed, and what the
\* invocation asked of the registry and of the volume.
LogOf(st, out, err) ==
    [out |-> st.out \cup out, err |-> st.err \cup err,
     installCalled |-> st.installCalled, attempted |-> st.attempted,
     rejected |-> st.rejected, iterations |-> st.iterations, indexLog |-> st.indexLog]

NoRun ==
    [argc |-> 0, cmd |-> <<>>, arg |-> Null, result |-> B_OK, exit |-> EXIT_SUCCESS,
     queries |-> <<>>, log |-> LogOf(NewRun([t \in ValidTypes |-> NotInstalled], {}), {}, {}),
     pre |-> [registry |-> [t \in ValidTypes |-> NotInstalled], indices |-> {}]]

Init ==
    /\ registry \in { [t \in ValidTypes |-> NotInstalled],
                      [t \in ValidTypes |-> IF t = ValidType THEN OldRecord ELSE NotInstalled] }
    /\ indices \in { {}, AllIndexed }
    /\ readOnly \in BOOLEAN
    /\ file \in Files
    /\ run = NoRun

\* return result == B_OK ? EXIT_SUCCESS : EXIT_FAILURE;
ExitOf(result) == IF result = B_OK THEN EXIT_SUCCESS ELSE EXIT_FAILURE

\* The invocation is over: the registry and the volume keep what it did.
Finish(cmd, arg, r, queries, out, err, exit) ==
    /\ registry' = r.st.registry
    /\ indices' = r.st.indices
    /\ run' = [argc |-> IF cmd = <<>> THEN 1 ELSE IF arg = Null THEN 2 ELSE 3,
               cmd |-> cmd, arg |-> arg, result |-> r.result, exit |-> exit,
               queries |-> queries,
               log |-> LogOf(r.st, out, err),
               pre |-> [registry |-> registry, indices |-> indices]]
    /\ UNCHANGED <<readOnly, file>>

\* Lines 28-31: argc == 1.
NoArguments ==
    \E r \in {[st |-> NewRun(registry, indices), result |-> B_OK]} :
        Finish(<<>>, Null, r, <<>>, {"usage"}, {}, EXIT_FAILURE)

\* Lines 34-41.  The status Install() returns is the registry's choice.
MainInstall(cmd, path) ==
    /\ StrNCmpEq(cmd, STR_install)
    /\ \E r \in { InstallMimeTypeFromResource(path, file, NewRun(registry, indices),
                                             readOnly, installStatus) :
                    installStatus \in Statuses } :
           IF r.result # B_OK
           THEN Finish(cmd, path, r, <<>>, {}, {"failed to install MIME type"}, ExitOf(r.result))
           ELSE Finish(cmd, path, r, <<>>, {"successfully installed MIME type"}, {},
                       ExitOf(r.result))

\* Lines 42-49.  What the uninitialised `result` holds, and what the
\* registry answers to Delete() of a missing type, are not this code's choice.
MainUninstall(cmd, type) ==
    /\ ~StrNCmpEq(cmd, STR_install)
    /\ StrNCmpEq(cmd, STR_uninstall)
    /\ \E r \in { DeleteMimeType(type, NewRun(registry, indices), garbage, missingStatus) :
                    garbage \in GarbageStatuses, missingStatus \in MissingStatuses } :
           IF r.result # B_OK
           THEN Finish(cmd, type, r, <<>>, {}, {"failed to uninstall MIME type"},
                       ExitOf(r.result))
           ELSE Finish(cmd, type, r, <<>>, {"successfully uninstalled MIME type"}, {},
                       ExitOf(r.result))

\* Lines 50-66: `result` is assigned by the entity query and then again by
\* the relation query; the two answers are the registry's.
MainList(cmd, entityResult, relationResult) ==
    /\ ~StrNCmpEq(cmd, STR_install)
    /\ ~StrNCmpEq(cmd, STR_uninstall)
    /\ StrNCmpEq(cmd, STR_list)
    /\ Finish(cmd, Null, [st |-> NewRun(registry, indices), result |-> relationResult],
              <<entityResult, relationResult>>,
              {"installed entities:", "installed relations:"},
              (IF entityResult # B_OK THEN {"failed to query MIME type DB (entity)"} ELSE {})
              \cup
              (IF relationResult # B_OK THEN {"failed to query MIME type DB (relation)"} ELSE {}),
              ExitOf(relationResult))

\* Lines 67-70.
MainUnknown(cmd) ==
    /\ ~StrNCmpEq(cmd, STR_install)
    /\ ~StrNCmpEq(cmd, STR_uninstall)
    /\ ~StrNCmpEq(cmd, STR_list)
    /\ Finish(cmd, Null, [st |-> NewRun(registry, indices), result |-> B_OK], <<>>,
              {}, {"unknown command"}, EXIT_FAILURE)

Next ==
    \/ NoArguments
    \/ \E cmd \in Commands, e \in Statuses, r \in Statuses : MainList(cmd, e, r)
    \/ \E cmd \in Commands, path \in {Null, FilePath} : MainInstall(cmd, path)
    \/ \E cmd \in Commands, type \in {Null, InvalidType, ValidType, OtherType} :
          MainUninstall(cmd, type)
    \/ \E cmd \in Commands : MainUnknown(cmd)

Spec == Init /\ [][Next]_vars

\* ================================================================ claims
IsInstallRun == run.argc >= 2 /\ StrNCmpEq(run.cmd, STR_install)
IsUninstallRun == run.argc >= 2 /\ ~IsInstallRun /\ StrNCmpEq(run.cmd, STR_uninstall)
IsListRun == run.argc >= 2 /\ ~IsInstallRun /\ ~IsUninstallRun /\ StrNCmpEq(run.cmd, STR_list)

\* The last invocation was an import whose file opened as a container.
Imported == IsInstallRun /\ run.arg # Null /\ file.readable /\ file.initOK

Success == run.result = B_OK /\ run.exit = EXIT_SUCCESS
Failed == run.result # B_OK /\ run.exit # EXIT_SUCCESS

RegistryUnchanged == registry = run.pre.registry
IndicesUnchanged == indices = run.pre.indices

\* The optional resources the import can hand to the registry: present,
\* and for a message decodable, and for the icon not empty.
UsableOptional(c) ==
    {k \in OptionalKinds :
        \/ k = "ldesc" /\ c.lDesc # Null
        \/ k = "prefapp" /\ c.prefApp # Null
        \/ k = "sniff" /\ c.snifferRule # Null
        \/ k = "extens" /\ c.extens \notin {Null, Garbage}
        \/ k = "attrinfo" /\ c.attrInfo.kind = "msg"
        \/ k = "icon" /\ c.icon \notin {Null, EmptyIcon}}

ResourceOf(c, k) ==
    CASE k = "sdesc" -> c.sDesc
      [] k = "ldesc" -> c.lDesc
      [] k = "prefapp" -> c.prefApp
      [] k = "sniff" -> c.snifferRule
      [] k = "extens" -> c.extens
      [] k = "attrinfo" -> c.attrInfo
      [] k = "icon" -> c.icon

\* C1: an import whose type string is invalid ends Failed (non-OK status,
\* non-zero exit) and leaves the registry and the indices unchanged.
C1_InvalidTypeFails ==
    (Imported /\ file.type # Null /\ ~IsValid(file.type))
        => (Failed /\ RegistryUnchanged /\ IndicesUnchanged)

\* C2: for a readable container with a valid type and a short description,
\* an import that returns Success leaves the type installed with the
\* container's short description.
C2_SuccessMeansDescribed ==
    (Imported /\ IsValid(file.type) /\ file.sDesc # Null /\ run.result = B_OK)
        => /\ registry[file.type].installed
           /\ registry[file.type].fields["sdesc"] = Value(file.sDesc)

\* C3: when the registry rejects the write of the short description, the
\* import returns a non-OK status and does not report Success.
C3_RejectedShortDescriptionFails ==
    (Imported /\ "sdesc" \in run.log.rejected)
        => (Failed /\ "successfully installed MIME type" \notin run.log.out)

\* C4: a container without the type or without the short description makes
\* the import fail fatally, having at most installed the type: no field
\* written, no index operation; without the type nothing changed at all.
OnlyInstalled ==
    \A t \in ValidTypes :
        \/ registry[t] = run.pre.registry[t]
        \/ ~run.pre.registry[t].installed /\ registry[t] = EmptyRecord

C4_MissingRequiredField ==
    (Imported /\ (file.type = Null \/ file.sDesc = Null))
        => /\ Failed
           /\ OnlyInstalled
           /\ run.log.attempted = {}
           /\ run.log.indexLog = <<>>
           /\ IndicesUnchanged
           /\ (file.type = Null => RegistryUnchanged)

\* C5: uninstalling a valid type that is not installed prints the notice,
\* returns success, exits 0 and leaves the registry unchanged.
C5_DeleteMissingSucceeds ==
    (IsUninstallRun /\ IsValid(run.arg) /\ ~run.pre.registry[run.arg].installed)
        => /\ Success
           /\ "is not installed, skipping" \in run.log.out
           /\ "failed to uninstall MIME type" \notin run.log.err
           /\ RegistryUnchanged

\* The index operations the schema asks for: one per entry that carries
\* the flag, on that entry's name and type, create for true, remove for false.
RECURSIVE WantedIndexOps(_)
WantedIndexOps(schema) ==
    IF schema = <<>> THEN <<>>
    ELSE (IF Head(schema).searchable = "absent" THEN <<>>
          ELSE << [op |-> IF Head(schema).searchable = "true" THEN "create" ELSE "remove",
                   name |-> Head(schema).name, type |-> Head(schema).type] >>)
         \o WantedIndexOps(Tail(schema))

IssuedIndexOps ==
    [i \in 1..Len(run.log.indexLog) |->
        [op |-> run.log.indexLog[i].op, name |-> run.log.indexLog[i].name,
         type |-> run.log.indexLog[i].type]]

\* The import got past the short description (steps 1-5 done).
PastStep5 ==
    Imported /\ IsValid(file.type) /\ file.sDesc # Null /\ registry[file.type].installed

\* ... and the registry accepted the short description.
Step5Succeeded == PastStep5 /\ "sdesc" \notin run.log.rejected

\* C6: the import issues exactly one index operation per schema entry that
\* carries a searchable flag, with that entry's name and type: create for
\* true, remove for false, and none for an entry without the flag.  (Stated
\* for imports in which the registry accepted the short description and the
\* schema, so that no ignored status plays a part.)
C6_OneIndexOpPerFlaggedEntry ==
    (Step5Succeeded /\ file.attrInfo.kind = "msg" /\ file.attrInfo.valid)
        => IssuedIndexOps = WantedIndexOps(file.attrInfo.schema)

\* C7: nothing after step 5 aborts the import or changes its result: every
\* usable optional field is handed to the registry whatever the registry
\* answered before, the index loop runs over every stored flag whatever the
\* earlier index calls returned, the import returns Success, and an index
\* found present (absent) on creation (removal) is reported as skipped.
FlagCount == IF file.attrInfo.kind = "msg" THEN Len(FlagsOf(file.attrInfo.schema)) ELSE 0

RanWithoutFailure ==
    /\ run.argc >= 2
    /\ run.cmd \in {STR_install, STR_uninstall, STR_list}
    /\ run.result = B_OK
    /\ run.log.err = {}
    /\ \A i \in 1..Len(run.queries) : run.queries[i] = B_OK

C8_ExitStatus ==
    run.argc >= 1 => (run.exit = EXIT_SUCCESS <=> RanWithoutFailure)

\* C9 as stated: an import for a type that is already installed does not
\* fail, does not call Install(), keeps the set of registered types, and
\* leaves every field the container carries equal to the container's value.
\* (Stated for imports in which the registry accepted the short description:
\* the fields in question are the optional ones.)
InstalledTypes(reg) == {t \in ValidTypes : reg[t].installed}

UpdatedInstalledType ==
    /\ Imported /\ IsValid(file.type) /\ file.sDesc # Null
    /\ run.pre.registry[file.type].installed

C9_FieldsReplaced ==
    (UpdatedInstalledType /\ "sdesc" \notin run.log.rejected)
        => /\ Success
           /\ ~run.log.installCalled
           /\ InstalledTypes(registry) = InstalledTypes(run.pre.registry)
           /\ \A k \in {"sdesc"} \cup UsableOptional(file) :
                registry[file.type].fields[k] = StoredValue(k, ResourceOf(file, k))

\* C9 as amended: ... leaves every field whose write the registry accepted
\* equal to the container's value and every other field as it was; and
\* importing the same file once more after an import that returned Success
\* changes neither the registry nor the indices and returns Success again.
ImportAgain(installStatus) ==
    InstallMimeTypeFromResource(run.arg, file, NewRun(registry, indices), readOnly,
                                installStatus)

C9_AcceptedFieldsReplaced ==
    /\ UpdatedInstalledType
        => /\ Success
           /\ ~run.log.installCalled
           /\ InstalledTypes(registry) = InstalledTypes(run.pre.registry)
           /\ \A k \in FieldKinds :
                registry[file.type].fields[k] =
                    IF k \in ({"sdesc"} \cup UsableOptional(file))
                       /\ RegistryAccepts(k, ResourceOf(file, k))
                    THEN StoredValue(k, ResourceOf(file, k))
                    ELSE run.pre.registry[file.type].fields[k]
    /\ (Imported /\ run.result = B_OK)
        => \A s \in Statuses :
             /\ ImportAgain(s).result = B_OK
             /\ ImportAgain(s).st.registry = registry
             /\ ImportAgain(s).st.indices = indices
             /\ ~ImportAgain(s).st.installCalled

\* An update of an installed type that replaced the old short description,
\* kept the old long description because the new one was rejected, and
\* changed an index.
C9_Witness ==
    /\ UpdatedInstalledType
    /\ run.pre.registry[file.type].fields["sdesc"] = Value("Old note")
    /\ registry[file.type].fields["sdesc"] = Value("SEN Note")
    /\ "ldesc" \in run.log.rejected
    /\ registry[file.type].fields["ldesc"] = Value("An older description")
    /\ indices # run.pre.indices

\* C10: index operations are issued only in an import whose container held
\* the attribute schema and whose registry write of the schema succeeded.
\* (Stated for imports in which the registry accepted the short description.)
C10_IndexOnlyAfterSchemaSet ==
    (IsInstallRun /\ run.log.indexLog # <<>> /\ "sdesc" \notin run.log.rejected)
        => /\ file.attrInfo.kind = "msg"
           /\ "attrinfo" \in run.log.attempted
           /\ "attrinfo" \notin run.log.rejected

====
